---------------------------- MODULE Spec2Model ----------------------------
(***************************************************************************)
(* Spotify OAuth token lifecycle of mcp-server-ado: the persisted          *)
(* configuration document (utils/configManager.ts), the cache wrapper      *)
(* (services/cacheService.ts) and the authorization status resolver of     *)
(* SpotifyService (spotify.ts).                                            *)
(*                                                                         *)
(* Strings are numbered: 0 is the empty string, a positive number is a     *)
(* non-empty string, Missing is an absent key (undefined).  Times are      *)
(* milliseconds.                                                           *)
(***************************************************************************)
EXTENDS Integers, Sequences, FiniteSets, TLC

VARIABLES
    fs,       \* the files: document, .bak sibling, template, .tmp sibling
    svc,      \* the SpotifyService singleton of index.ts (or none)
    cache,    \* the service's CacheService entries
    now,      \* Date.now()
    issued,   \* number of access tokens the provider has issued
    last,     \* what the last operation was, was given and returned
    save,     \* a saveTokensToConfig call in progress, file-system call by call
    auth,     \* a serverAuthorize invocation: its listener and its promise
    calls     \* calls in progress beside each other, by caller

vars == <<fs, svc, cache, now, issued, last, save, auth, calls>>

---------------------------------------------------------------------------
(* Values                                                                  *)

\* An optional field that is not present in a document (undefined).
Missing == -1

\* Date.now() when the model starts.
StartTime == 1000000

\* checkAuthStatus renews a token this many ms before it expires.
RenewalThreshold == 300000

\* Life time in seconds of an access token the provider issues.
ProviderExpiresIn == 3600

\* TTL in seconds of the cached refresh token (30 * 24 * 3600); the model
\* never runs that long, so the entry outlives every behaviour.
RefreshTokenTtl == 2592000

\* Bounds of the model.
MaxIssued == 2
MaxTicks == 2
MaxNotFound == 2
MaxErrors == 1
MaxRounds == 2

Keys == {"clientId", "clientSecret", "redirectUri",
         "accessToken", "refreshToken", "expiresAt", "extra"}

TokenKeys == {"accessToken", "refreshToken", "expiresAt"}

\* JavaScript truthiness of a field value.
Truthy(v) == v /= Missing /\ v /= 0

---------------------------------------------------------------------------
(* Redirect URIs, as token sequences                                       *)

UriText(u) ==
    CASE u = 1 -> <<"https", "://", "localhost", ":", "8888", "/", "callback">>
      [] u = 2 -> <<"http", "://", "127.0.0.1", ":", "8888", "/", "callback">>
      [] u = 3 -> <<"https", "://", "example", ".", "com", "/", "callback">>
      [] u = 4 -> <<"https", "://", "localhost", ".", "example", ".", "com", "/", "callback">>
      [] u = 5 -> <<"http", "://", "localhost", ":", "8888", "/", "callback">>
      [] u = 6 -> <<"https", "://", "localhost", "/", "callback">>
      [] u = 7 -> <<"http", "://", "localhost", "/", "callback">>
      [] u = 8 -> <<"https", "://", "localhost", ":", "443", "/", "callback">>
      [] OTHER -> <<>>

\* String.prototype.includes on the whole URI text.
Includes(text, tok) == \E i \in 1..Len(text) : text[i] = tok

\* new URL(text).hostname: the tokens after "://" up to the first ":" or "/".
HostEnd(text) ==
    LET stops == {i \in 3..Len(text) : text[i] \in {":", "/"}}
    IN  IF stops = {} THEN Len(text) + 1
        ELSE CHOOSE i \in stops : \A j \in stops : i <= j

Hostname(text) ==
    IF Len(text) < 3 THEN <<>> ELSE SubSeq(text, 3, HostEnd(text) - 1)

\* Number.parseInt of a port token.
PortNumber(tok) ==
    CASE tok = "8888" -> 8888
      [] tok = "443"  -> 443
      [] tok = "80"   -> 80
      [] OTHER        -> 0

\* The port a scheme implies.
SchemeDefaultPort(text) ==
    IF Len(text) > 0 /\ text[1] = "https" THEN 443 ELSE 80

\* new URL(text).port as a number, 0 for the empty string: the URL class
\* drops a port that is the default of the scheme.
UrlPort(text) ==
    LET e == HostEnd(text)
    IN  IF e < Len(text) /\ text[e] = ":"
           /\ PortNumber(text[e + 1]) /= SchemeDefaultPort(text)
        THEN PortNumber(text[e + 1])
        ELSE 0

---------------------------------------------------------------------------
(* Files                                                                   *)

NoDoc == [k \in Keys |-> Missing]

Absent  == [kind |-> "absent",  pretty |-> FALSE, doc |-> NoDoc]
Empty   == [kind |-> "empty",   pretty |-> FALSE, doc |-> NoDoc]
Corrupt == [kind |-> "corrupt", pretty |-> FALSE, doc |-> NoDoc]

\* A file holding a JSON object; pretty: it is exactly JSON.stringify(doc, null, 2).
Json(d, p) == [kind |-> "json", pretty |-> p, doc |-> d]

Exists(f) == f.kind /= "absent"

\* fileContent is falsy or trims to "".
IsBlank(f) == f.kind = "empty"

Parses(f) == f.kind = "json"

HasRequiredFields(d) ==
    Truthy(d.clientId) /\ Truthy(d.clientSecret) /\ Truthy(d.redirectUri)

\* The default document saveTokensToConfig writes when there is no template:
\* process.env values or '' / 'http://localhost:8888/callback'.
DefaultConfig(envSet) ==
    [NoDoc EXCEPT !.clientId = IF envSet THEN 1 ELSE 0,
                  !.clientSecret = IF envSet THEN 1 ELSE 0,
                  !.redirectUri = 5]

---------------------------------------------------------------------------
(* utils/configManager.ts                                                  *)

\* Steps of saveTokensToConfig at which a file-system call can throw.
FaultPoints == {"create", "backup", "read", "write", "rename", "readback", "restore"}

\* findConfigFile: the single location of CONFIG_LOCATIONS, remembered as
\* activeConfigPath when the file exists.
FindConfigFile(f) ==
    [found |-> Exists(f.cfg),
     fs    |-> IF Exists(f.cfg) THEN [f EXCEPT !.active = TRUE] ELSE f]

\* getConfigFilePath: always the single location; sets activeConfigPath.
GetConfigFilePath(f) == [f EXCEPT !.active = TRUE]

\* A loadSpotifyConfig that accepts a document without redirectUri.
LoadSpotifyConfig_NoUriCheck(f) ==
    LET r == FindConfigFile(f)
        c == f.cfg
        err == IF ~r.found THEN "missing"
               ELSE IF IsBlank(c) \/ ~Parses(c) THEN "invalid"
               ELSE IF ~(Truthy(c.doc.clientId) /\ Truthy(c.doc.clientSecret))
                    THEN "incomplete"
               ELSE ""
    IN  [ok |-> err = "", err |-> err,
         doc |-> IF err = "" THEN c.doc ELSE NoDoc,
         fs |-> r.fs]

\* loadSpotifyConfig: err is "" when the document is returned.
LoadSpotifyConfig(f) ==
    LET r == FindConfigFile(f)
        c == f.cfg
        err == IF ~r.found THEN "missing"
               ELSE IF IsBlank(c) \/ ~Parses(c) THEN "invalid"
               ELSE IF ~HasRequiredFields(c.doc) THEN "incomplete"
               ELSE ""
    IN  [ok |-> err = "", err |-> err,
         doc |-> IF err = "" THEN c.doc ELSE NoDoc,
         fs |-> r.fs]

\* A verifyConfigFileIntegrity that tries the template before the backup.
VerifyConfigFileIntegrity_TemplateFirst(f) ==
    LET r == FindConfigFile(f)
        g == r.fs
        c == g.cfg
    IN  IF ~r.found THEN [ret |-> FALSE, fs |-> g]
        ELSE IF IsBlank(c) THEN
            IF Exists(g.ex) THEN [ret |-> TRUE, fs |-> [g EXCEPT !.cfg = g.ex]]
            ELSE [ret |-> FALSE, fs |-> g]
        ELSE IF Parses(c) THEN [ret |-> HasRequiredFields(c.doc), fs |-> g]
        ELSE IF Exists(g.ex) THEN [ret |-> TRUE, fs |-> [g EXCEPT !.cfg = g.ex]]
        ELSE IF Exists(g.bak) THEN [ret |-> TRUE, fs |-> [g EXCEPT !.cfg = g.bak]]
        ELSE [ret |-> FALSE, fs |-> g]

\* verifyConfigFileIntegrity.
VerifyConfigFileIntegrity(f) ==
    LET r == FindConfigFile(f)
        g == r.fs
        c == g.cfg
    IN  IF ~r.found THEN [ret |-> FALSE, fs |-> g]
        ELSE IF IsBlank(c) THEN
            IF Exists(g.ex) THEN [ret |-> TRUE, fs |-> [g EXCEPT !.cfg = g.ex]]
            ELSE [ret |-> FALSE, fs |-> g]
        ELSE IF Parses(c) THEN [ret |-> HasRequiredFields(c.doc), fs |-> g]
        ELSE IF Exists(g.bak) THEN [ret |-> TRUE, fs |-> [g EXCEPT !.cfg = g.bak]]
        ELSE IF Exists(g.ex) THEN [ret |-> TRUE, fs |-> [g EXCEPT !.cfg = g.ex]]
        ELSE [ret |-> FALSE, fs |-> g]

\* A backupConfigFile that reports success without copying anything.
BackupConfigFile_NoCopy(f, fails) ==
    [ret |-> FindConfigFile(f).found /\ ~fails, fs |-> FindConfigFile(f).fs]

\* backupConfigFile: best effort, a failing copy is logged and swallowed.
BackupConfigFile(f, fails) ==
    LET r == FindConfigFile(f)
    IN  IF ~r.found \/ fails THEN [ret |-> FALSE, fs |-> r.fs]
        ELSE [ret |-> TRUE, fs |-> [r.fs EXCEPT !.bak = r.fs.cfg]]

Triple(at, rt, exp) == [accessToken |-> at, refreshToken |-> rt, expiresAt |-> exp]

ValidTriple(t) == t.accessToken /= 0 /\ t.refreshToken /= 0 /\ t.expiresAt /= 0

\* A blind overwrite: only the three token fields are written.
WithTokens_Blind(d, t) ==
    [NoDoc EXCEPT !.accessToken = t.accessToken,
                  !.refreshToken = t.refreshToken,
                  !.expiresAt = t.expiresAt]

\* configData.accessToken = ...; configData.refreshToken = ...; configData.expiresAt = ...
WithTokens(d, t) ==
    [d EXCEPT !.accessToken = t.accessToken,
              !.refreshToken = t.refreshToken,
              !.expiresAt = t.expiresAt]

\* A catch block whose restoring copy is not in a try block of its own.
SaveFailed_Unguarded(f, F) ==
    LET g == GetConfigFilePath(f)
    IN  [ret |-> FALSE, threw |-> (Exists(g.bak) /\ "restore" \in F),
         fs  |-> IF Exists(g.bak) /\ "restore" \notin F
                 THEN [g EXCEPT !.cfg = g.bak] ELSE g]

\* The catch block of saveTokensToConfig: restore from .bak when it exists;
\* a failing restore is caught and logged.
SaveFailed(f, F) ==
    LET g == GetConfigFilePath(f)
    IN  [ret |-> FALSE, threw |-> FALSE,
         fs  |-> IF Exists(g.bak) /\ "restore" \notin F
                 THEN [g EXCEPT !.cfg = g.bak] ELSE g]

\* A creation that ignores the template.
CreateConfig_DefaultOnly(f, envSet) ==
    [f EXCEPT !.cfg = Json(DefaultConfig(envSet), TRUE)]

\* saveTokensToConfig, when the document is missing or invalid: create it
\* from the template, or from the default when there is no template.
CreateConfig(f, envSet) ==
    IF Exists(f.ex) THEN [f EXCEPT !.cfg = f.ex]
    ELSE [f EXCEPT !.cfg = Json(DefaultConfig(envSet), TRUE)]

\* saveTokensToConfig(t) with the file-system calls at the points F throwing
\* and the SPOTIFY_* environment variables set or not.
SaveTokensToConfig(f, t, F, envSet) ==
    IF ~ValidTriple(t) THEN [ret |-> FALSE, threw |-> FALSE, fs |-> f]
    ELSE
    LET v  == VerifyConfigFileIntegrity(f)
        f1 == GetConfigFilePath(v.fs)
        \* create from the template or the default, or back up the valid file
        f2 == IF ~v.ret THEN CreateConfig(f1, envSet)
              ELSE BackupConfigFile(f1, "backup" \in F).fs
        c  == f2.cfg
        f3 == [f2 EXCEPT !.tmp = Json(WithTokens(c.doc, t), TRUE)]
        f4 == [f3 EXCEPT !.cfg = f3.tmp, !.tmp = Absent]
    IN  IF ~v.ret /\ "create" \in F THEN SaveFailed(f1, F)
        ELSE IF "read" \in F \/ ~Exists(c) \/ IsBlank(c) \/ ~Parses(c)
             THEN SaveFailed(f2, F)
        ELSE IF "write" \in F THEN SaveFailed(f2, F)
        ELSE IF "rename" \in F THEN SaveFailed(f3, F)
        ELSE IF "readback" \in F \/ IsBlank(f4.cfg) THEN SaveFailed(f4, F)
        ELSE [ret |-> TRUE, threw |-> FALSE, fs |-> f4]

---------------------------------------------------------------------------
(* services/cacheService.ts over node-cache                                *)

NoEntry == [set |-> FALSE, v |-> 0, t |-> 0]

\* The two keys the service uses: spotify_refresh_token, spotify_token_expires.
NoCache == [refreshToken |-> NoEntry, tokenExpires |-> NoEntry]

\* CacheService.set(key, value, ttl): the entry lives until Date.now() + ttl
\* seconds; a ttl of 0 never expires (t = 0).  The end of life is kept in
\* seconds (30 days in ms is beyond TLC's integers); Date.now() is a multiple
\* of 1000 in every state of the model.
CacheSet(c, key, value, ttl, t) ==
    [c EXCEPT ![key] = [set |-> TRUE, v |-> value,
                        t |-> IF ttl = 0 THEN 0 ELSE (t \div 1000) + ttl]]

\* An entry whose life time has passed is dropped on read.
CacheLive(c, key, t) == c[key].set /\ (c[key].t = 0 \/ c[key].t >= t \div 1000)

\* CacheService.get(key): the value (0 for undefined) and the cache after it.
CacheGet(c, key, t) ==
    IF CacheLive(c, key, t) THEN [v |-> c[key].v, cache |-> c]
    ELSE [v |-> 0, cache |-> [c EXCEPT ![key] = NoEntry]]

---------------------------------------------------------------------------
(* spotify.ts: SpotifyService                                              *)

NoSvc == [exists |-> FALSE, redirectUri |-> 0, accessToken |-> 0,
          apiRefreshToken |-> 0, refreshToken |-> 0, isAuthorized |-> FALSE]

NoResult ==
    [isAuthorized |-> FALSE, authUrl |-> FALSE, serverAuthAvailable |-> FALSE,
     threw |-> FALSE, message |-> ""]

\* A value read from a document as the service holds it: undefined is 0.
Val(v) == IF v = Missing THEN 0 ELSE v

HasTokenPair(d) == Truthy(d.accessToken) /\ Truthy(d.refreshToken)

\* Math.floor((expiresAt - Date.now()) / 1000)
SecondsUntil(exp, t) == (exp - t) \div 1000

\* The tokens of document d taken into the service and mirrored into the
\* cache (constructor lines 56-66, checkAuthStatus lines 129-138).
AdoptTokens(s, c, d, t) ==
    LET c1 == CacheSet(c, "refreshToken", d.refreshToken, RefreshTokenTtl, t)
        c2 == IF Truthy(d.expiresAt)
              THEN CacheSet(c1, "tokenExpires", d.expiresAt,
                            SecondsUntil(d.expiresAt, t), t)
              ELSE c1
    IN  [svc |-> [s EXCEPT !.accessToken = d.accessToken,
                           !.apiRefreshToken = d.refreshToken,
                           !.refreshToken = d.refreshToken],
         cache |-> c2]

\* new SpotifyService(config) with a new, empty cache.
NewSpotifyService(d, t) ==
    LET s0 == [NoSvc EXCEPT !.exists = TRUE, !.redirectUri = Val(d.redirectUri)]
        a  == AdoptTokens(s0, NoCache, d, t)
        g  == CacheGet(NoCache, "refreshToken", t)
    IN  IF HasTokenPair(d)
        THEN [svc |-> [a.svc EXCEPT !.isAuthorized = TRUE], cache |-> a.cache]
        ELSE [svc |-> [s0 EXCEPT !.refreshToken = g.v, !.apiRefreshToken = g.v],
              cache |-> g.cache]

\* A near-expiry test with twice the renewal threshold.
NearExpiry_Wide(exp, t) == t > exp - 2 * RenewalThreshold

\* Date.now() > expiresAt - 300000
NearExpiry(exp, t) == t > exp - RenewalThreshold

\* redirectUri.includes('localhost') || redirectUri.includes('127.0.0.1')
ServerAuthAvailable(s) ==
    /\ s.redirectUri /= 0
    /\ \/ Includes(UriText(s.redirectUri), "localhost")
       \/ Includes(UriText(s.redirectUri), "127.0.0.1")

\* serverAuthorize's test of the redirect host (lines 670-678).
HostIsLocal(u) ==
    Hostname(UriText(u)) \in {<<"localhost">>, <<"127.0.0.1">>}

\* getAuthorizationUrl throws when the service has no redirect URI.
GetAuthorizationUrlThrows(s) == s.redirectUri = 0

\* The unauthorized result of checkAuthStatus: getAuthorizationUrl is called
\* outside every try block, so its throw leaves checkAuthStatus.
Unauthorized(s, msg) ==
    IF GetAuthorizationUrlThrows(s) THEN [NoResult EXCEPT !.threw = TRUE]
    ELSE [NoResult EXCEPT !.authUrl = TRUE,
                          !.serverAuthAvailable = ServerAuthAvailable(s),
                          !.message = msg]

Authorized(msg) == [NoResult EXCEPT !.isAuthorized = TRUE, !.message = msg]

\* An access token of the provider: the n-th it issues.
IssuedToken(n) == 10 + n

\* checkAuthStatus up to its await of refreshAccessToken (or its return):
\* decision is "authorized", "unauthorized" or "refresh".
CheckAuthPrefix(f, s, c, t) ==
    LET l  == LoadSpotifyConfig(f)
        d  == l.doc
        usesDoc == l.ok /\ HasTokenPair(d)
        adopts == usesDoc /\ (s.refreshToken = 0 \/ s.refreshToken /= d.refreshToken)
        a  == IF adopts THEN AdoptTokens(s, c, d, t) ELSE [svc |-> s, cache |-> c]
        g  == CacheGet(c, "tokenExpires", t)
    IN  IF usesDoc THEN
            [fs |-> l.fs, svc |-> a.svc, cache |-> a.cache, adopted |-> adopts,
             branch |-> "document",
             decision |-> IF Truthy(d.expiresAt) /\ NearExpiry(d.expiresAt, t)
                          THEN "refresh" ELSE "authorized"]
        ELSE
            [fs |-> l.fs, svc |-> s, cache |-> g.cache, adopted |-> FALSE,
             branch |-> "cache",
             decision |-> IF s.refreshToken = 0 THEN "unauthorized"
                          ELSE IF g.v = 0 \/ NearExpiry(g.v, t) THEN "refresh"
                          ELSE "authorized"]

\* A refreshAccessToken that takes expires_in for milliseconds.
RefreshAccessToken_Seconds(f, s, c, t, providerOk, tok, expiresIn, F, envSet) ==
    IF ~providerOk THEN [ok |-> FALSE, saved |-> FALSE, fs |-> f, svc |-> s, cache |-> c]
    ELSE
    LET s1 == [s EXCEPT !.accessToken = tok, !.isAuthorized = TRUE]
        expiresAt == t + expiresIn
        sv == SaveTokensToConfig(f, Triple(tok, s.refreshToken, expiresAt), F, envSet)
        c1 == CacheSet(c, "tokenExpires", expiresAt, expiresIn, t)
        c2 == IF ~sv.ret /\ s.refreshToken /= 0
              THEN CacheSet(c1, "refreshToken", s.refreshToken, RefreshTokenTtl, t)
              ELSE c1
    IN  [ok |-> TRUE, saved |-> sv.ret, fs |-> sv.fs, svc |-> s1, cache |-> c2]

\* refreshAccessToken after the provider answered with access token tok and
\* expires_in seconds: ok is FALSE when it throws.
RefreshAccessToken(f, s, c, t, providerOk, tok, expiresIn, F, envSet) ==
    IF ~providerOk THEN [ok |-> FALSE, saved |-> FALSE, fs |-> f, svc |-> s, cache |-> c]
    ELSE
    LET s1 == [s EXCEPT !.accessToken = tok, !.isAuthorized = TRUE]
        expiresAt == t + expiresIn * 1000
        sv == SaveTokensToConfig(f, Triple(tok, s.refreshToken, expiresAt), F, envSet)
        c1 == CacheSet(c, "tokenExpires", expiresAt, expiresIn, t)
        c2 == IF ~sv.ret /\ s.refreshToken /= 0
              THEN CacheSet(c1, "refreshToken", s.refreshToken, RefreshTokenTtl, t)
              ELSE c1
    IN  [ok |-> TRUE, saved |-> sv.ret, fs |-> sv.fs, svc |-> s1, cache |-> c2]

---------------------------------------------------------------------------
(* Documents and inputs the model draws from                               *)

Doc(id, secret, uri, at, rt, exp, extra) ==
    [clientId |-> id, clientSecret |-> secret, redirectUri |-> uri,
     accessToken |-> at, refreshToken |-> rt, expiresAt |-> exp, extra |-> extra]

\* The template spotify-config.example.json: placeholder credentials (9).
TemplateDoc == Doc(9, 9, 1, Missing, Missing, Missing, Missing)

TemplateSamples ==
    {Absent, Corrupt, Json(TemplateDoc, FALSE),
     Json([TemplateDoc EXCEPT !.redirectUri = Missing], FALSE)}

\* Documents of the store specification.
StoreDocs ==
    {Doc(1, 1, 1, Missing, Missing, Missing, 7),
     Doc(1, 1, 1, 1, 1, StartTime - 1000, 7),
     Doc(1, 1, 1, Missing, 1, Missing, Missing),
     Doc(1, Missing, 1, 1, 1, StartTime - 1000, 7),
     Doc(0, 1, 1, Missing, Missing, Missing, 7)}

StoreFiles ==
    {Absent, Empty, Corrupt} \cup {Json(d, FALSE) : d \in StoreDocs}

BackupSamples ==
    {Absent, Corrupt, Json(Doc(1, 1, 1, 1, 2, StartTime - 1000, 8), TRUE)}

TripleSamples ==
    {Triple(2, 2, StartTime + 3600000),
     Triple(3, 2, StartTime + 7200000),
     Triple(2, 0, StartTime + 3600000)}

\* The sets of failing file-system calls a saveTokensToConfig call is run with.
FaultSets ==
    {{}, {"backup"}, {"read"}, {"write"}, {"rename"}, {"readback"},
     {"backup", "write"}, {"write", "restore"}}

---------------------------------------------------------------------------
(* History: what the last operation was                                    *)

NoTriple == Triple(0, 0, 0)

\* chain says what the operation followed: "repeat" a successful call with
\* the same arguments, "afterSave" a successful saveTokensToConfig,
\* "afterDelete" a deletion that itself followed a successful save.
\* case says what the document was to the operation (FileCase, DocCase);
\* hadToken and adopted say whether the service held a refresh token before
\* a checkAuthStatus and whether it took the document's tokens.
\* request is the request a callback listener was given.
NoRequest == [path |-> "", error |-> FALSE, state |-> 0, code |-> 0]

NoOp ==
    [op |-> "none", ret |-> FALSE, triple |-> NoTriple, faults |-> {},
     chain |-> "", case |-> "", hadToken |-> FALSE, adopted |-> FALSE,
     refreshCalled |-> FALSE, refreshOk |-> FALSE, exchangeCalled |-> FALSE,
     saved |-> FALSE, result |-> NoResult, request |-> NoRequest,
     checked |-> FALSE, apiCalls |-> 0]

\* No saveTokensToConfig call in progress.  pc is the next file-system call
\* of the call; valid is isConfigValid, data is configData; pre is the
\* document when the call began and post the document the call leaves.
NoSave ==
    [pc |-> "idle", triple |-> NoTriple, faults |-> {}, envSet |-> FALSE,
     valid |-> FALSE, data |-> NoDoc, pre |-> Absent, post |-> Absent]

\* No serverAuthorize invocation.  listener is "none", "unbound" (created,
\* listen failed), "open" or "closed"; resolved, success and message are the
\* promise; exchanging counts the exchangeCodeForToken calls awaited.
NoAuth ==
    [invoked |-> FALSE, listener |-> "none", resolved |-> FALSE,
     success |-> FALSE, message |-> "", resolveCalls |-> 0, exchanging |-> 0,
     exchangeCalls |-> 0, errorPending |-> FALSE, errors |-> 0, notFound |-> 0,
     port |-> 0, round |-> 0, leaked |-> FALSE]

---------------------------------------------------------------------------
(* The store on its own: calls of the exported configManager functions     *)
(* and changes of the document from outside the process                    *)

StoreInit ==
    /\ \E c \in StoreFiles, b \in BackupSamples, e \in TemplateSamples :
          fs = [cfg |-> c, bak |-> b, ex |-> e, tmp |-> Absent, active |-> FALSE]
    /\ svc = NoSvc
    /\ cache = NoCache
    /\ now = StartTime
    /\ issued = 0
    /\ last = NoOp
    /\ save = NoSave
    /\ auth = NoAuth
    /\ calls = <<>>

StoreFrame == UNCHANGED <<svc, cache, now, issued, save, auth, calls>>

\* What a file is to verifyConfigFileIntegrity.
FileCase(f) ==
    IF ~Exists(f) THEN "absent"
    ELSE IF IsBlank(f) THEN "empty"
    ELSE IF ~Parses(f) THEN "corrupt"
    ELSE IF HasRequiredFields(f.doc) THEN "valid"
    ELSE "incomplete"

SaveChain(t, F) ==
    IF last.op = "save" /\ last.ret /\ last.triple = t /\ F = {} THEN "repeat"
    ELSE IF last.op = "delete" /\ last.chain = "afterSave" THEN "afterDelete"
    ELSE ""

SaveTokens ==
    \E t \in TripleSamples, F \in FaultSets, envSet \in BOOLEAN :
        \E r \in {SaveTokensToConfig(fs, t, F, envSet)} :
            /\ fs' = r.fs
            /\ last' = [NoOp EXCEPT !.op = "save", !.ret = r.ret, !.triple = t,
                                    !.faults = F, !.chain = SaveChain(t, F),
                                    !.case = FileCase(fs.cfg),
                                    !.result = [NoResult EXCEPT !.threw = r.threw]]
            /\ StoreFrame

VerifyIntegrity ==
    LET r == VerifyConfigFileIntegrity(fs)
    IN  /\ fs' = r.fs
        /\ last' = [NoOp EXCEPT !.op = "verify", !.ret = r.ret,
                                !.case = FileCase(fs.cfg)]
        /\ StoreFrame

Backup ==
    \E fails \in BOOLEAN :
        LET r == BackupConfigFile(fs, fails)
        IN  /\ fs' = r.fs
            /\ last' = [NoOp EXCEPT !.op = "backup", !.ret = r.ret,
                                    !.case = FileCase(fs.cfg)]
            /\ StoreFrame

\* The document is deleted from outside.
DeleteDocument ==
    /\ Exists(fs.cfg)
    /\ fs' = [fs EXCEPT !.cfg = Absent]
    /\ last' = [NoOp EXCEPT !.op = "delete",
                   !.chain = IF last.op = "save" /\ last.ret THEN "afterSave" ELSE ""]
    /\ StoreFrame

\* The document is damaged from outside (a torn write, a manual edit).
DamageDocument ==
    /\ Exists(fs.cfg)
    /\ \E c \in {Empty, Corrupt} :
          /\ fs.cfg /= c
          /\ fs' = [fs EXCEPT !.cfg = c]
    /\ last' = [NoOp EXCEPT !.op = "damage"]
    /\ StoreFrame

StoreNext ==
    \/ SaveTokens
    \/ VerifyIntegrity
    \/ Backup
    \/ DeleteDocument
    \/ DamageDocument

StoreSpec == StoreInit /\ [][StoreNext]_vars

---------------------------------------------------------------------------
(* saveTokensToConfig one file-system call at a time, with a reader of the *)
(* document in another process (the server while the authorization CLI     *)
(* saves, or the reverse)                                                  *)

StepFrame == UNCHANGED <<svc, cache, now, issued, auth, calls>>

SaveReturns(ret) ==
    [NoOp EXCEPT !.op = "save", !.ret = ret, !.triple = save.triple,
                 !.faults = save.faults, !.case = FileCase(save.pre)]

\* Lines 120-131: the call begins with a valid triple.
SaveBegin ==
    /\ save.pc = "idle"
    /\ \E t \in {x \in TripleSamples : ValidTriple(x)}, F \in FaultSets,
          envSet \in BOOLEAN :
          save' = [pc |-> "verify", triple |-> t, faults |-> F, envSet |-> envSet,
                   valid |-> FALSE, data |-> NoDoc, pre |-> fs.cfg,
                   post |-> SaveTokensToConfig(fs, t, F, envSet).fs.cfg]
    /\ last' = NoOp
    /\ UNCHANGED fs
    /\ StepFrame

\* Lines 134-135.
SaveVerifyStep ==
    /\ save.pc = "verify"
    /\ \E v \in {VerifyConfigFileIntegrity(fs)} :
          /\ fs' = GetConfigFilePath(v.fs)
          /\ save' = [save EXCEPT !.valid = v.ret,
                                  !.pc = IF v.ret THEN "backup" ELSE "create"]
    /\ last' = NoOp
    /\ StepFrame

\* Lines 138-150.
SaveCreateStep ==
    /\ save.pc = "create"
    /\ IF "create" \in save.faults
       THEN /\ save' = [save EXCEPT !.pc = "restore"]
            /\ UNCHANGED fs
       ELSE /\ fs' = CreateConfig(fs, save.envSet)
            /\ save' = [save EXCEPT !.pc = "read"]
    /\ last' = NoOp
    /\ StepFrame

\* Line 153.
SaveBackupStep ==
    /\ save.pc = "backup"
    /\ fs' = BackupConfigFile(fs, "backup" \in save.faults).fs
    /\ save' = [save EXCEPT !.pc = "read"]
    /\ last' = NoOp
    /\ StepFrame

\* Lines 157-162.
SaveReadStep ==
    /\ save.pc = "read"
    /\ save' = IF \/ "read" \in save.faults
                  \/ ~Exists(fs.cfg) \/ IsBlank(fs.cfg) \/ ~Parses(fs.cfg)
               THEN [save EXCEPT !.pc = "restore"]
               ELSE [save EXCEPT !.pc = "write", !.data = fs.cfg.doc]
    /\ last' = NoOp
    /\ UNCHANGED fs
    /\ StepFrame

\* Lines 165-175.
SaveWriteStep ==
    /\ save.pc = "write"
    /\ IF "write" \in save.faults
       THEN /\ save' = [save EXCEPT !.pc = "restore"]
            /\ UNCHANGED fs
       ELSE /\ fs' = [fs EXCEPT !.tmp = Json(WithTokens(save.data, save.triple), TRUE)]
            /\ save' = [save EXCEPT !.pc = "rename"]
    /\ last' = NoOp
    /\ StepFrame

\* Line 178.
SaveRenameStep ==
    /\ save.pc = "rename"
    /\ IF "rename" \in save.faults
       THEN /\ save' = [save EXCEPT !.pc = "restore"]
            /\ UNCHANGED fs
       ELSE /\ fs' = [fs EXCEPT !.cfg = fs.tmp, !.tmp = Absent]
            /\ save' = [save EXCEPT !.pc = "readback"]
    /\ last' = NoOp
    /\ StepFrame

\* Lines 181-187.
SaveReadbackStep ==
    /\ save.pc = "readback"
    /\ IF "readback" \in save.faults \/ IsBlank(fs.cfg)
       THEN /\ save' = [save EXCEPT !.pc = "restore"]
            /\ last' = NoOp
       ELSE /\ save' = [save EXCEPT !.pc = "idle"]
            /\ last' = SaveReturns(TRUE)
    /\ UNCHANGED fs
    /\ StepFrame

\* Lines 188-204.
SaveRestoreStep ==
    /\ save.pc = "restore"
    /\ fs' = SaveFailed(fs, save.faults).fs
    /\ save' = [save EXCEPT !.pc = "idle"]
    /\ last' = SaveReturns(FALSE)
    /\ StepFrame

\* Another process reads the document (loadSpotifyConfig there).
ReadDocument ==
    /\ last.op /= "read"
    /\ last' = [NoOp EXCEPT !.op = "read", !.ret = LoadSpotifyConfig(fs).ok,
                            !.case = FileCase(fs.cfg)]
    /\ UNCHANGED <<fs, save>>
    /\ StepFrame

SaveStepsNext ==
    \/ SaveBegin
    \/ SaveVerifyStep
    \/ SaveCreateStep
    \/ SaveBackupStep
    \/ SaveReadStep
    \/ SaveWriteStep
    \/ SaveRenameStep
    \/ SaveReadbackStep
    \/ SaveRestoreStep
    \/ ReadDocument

SaveStepsSpec == StoreInit /\ [][SaveStepsNext]_vars

\* The calls of a saveTokensToConfig, one by one, leave what the call as a
\* whole is modelled to leave.
StepsAgree ==
    (save.pc = "idle" /\ last.op = "save") =>
        /\ fs.cfg = save.post
        /\ last.ret = SaveTokensToConfig([fs EXCEPT !.cfg = save.pre], save.triple,
                                         save.faults, save.envSet).ret

---------------------------------------------------------------------------
(* Two processes, each in a saveTokensToConfig call on the same document   *)

Writers == {1, 2}

WriterFaultSets == {{}, {"write"}}

\* The triple each process saves.
WriterTriple(w) == Triple(10 + w, w, StartTime + w * 1000)

\* The document both processes found, with an earlier token triple.
SharedDoc == Doc(1, 1, 1, 1, 9, StartTime - 1000, 7)

IdleWriter == [s |-> NoSave, done |-> FALSE, ret |-> FALSE]

\* One file-system call of a saveTokensToConfig call sv on the files f, as
\* the step actions above make it; renameSync throws when the temporary file
\* is no longer there.  pc "idle" with done: the call has returned ret.
SaveStep(sv, f) ==
    LET go(pc) == [s |-> [sv EXCEPT !.pc = pc], fs |-> f, done |-> FALSE, ret |-> FALSE]
    IN  CASE sv.pc = "verify" ->
               LET v == VerifyConfigFileIntegrity(f)
               IN  [s |-> [sv EXCEPT !.valid = v.ret,
                                     !.pc = IF v.ret THEN "backup" ELSE "create"],
                    fs |-> GetConfigFilePath(v.fs), done |-> FALSE, ret |-> FALSE]
          [] sv.pc = "create" ->
               IF "create" \in sv.faults THEN go("restore")
               ELSE [go("read") EXCEPT !.fs = CreateConfig(f, sv.envSet)]
          [] sv.pc = "backup" ->
               [go("read") EXCEPT !.fs = BackupConfigFile(f, "backup" \in sv.faults).fs]
          [] sv.pc = "read" ->
               IF \/ "read" \in sv.faults
                  \/ ~Exists(f.cfg) \/ IsBlank(f.cfg) \/ ~Parses(f.cfg)
               THEN go("restore")
               ELSE [go("write") EXCEPT !.s.data = f.cfg.doc]
          [] sv.pc = "write" ->
               IF "write" \in sv.faults THEN go("restore")
               ELSE [go("rename") EXCEPT
                        !.fs = [f EXCEPT !.tmp = Json(WithTokens(sv.data, sv.triple), TRUE)]]
          [] sv.pc = "rename" ->
               IF "rename" \in sv.faults \/ ~Exists(f.tmp) THEN go("restore")
               ELSE [go("readback") EXCEPT !.fs = [f EXCEPT !.cfg = f.tmp, !.tmp = Absent]]
          [] sv.pc = "readback" ->
               IF "readback" \in sv.faults \/ IsBlank(f.cfg) THEN go("restore")
               ELSE [go("idle") EXCEPT !.done = TRUE, !.ret = TRUE]
          [] OTHER ->
               [go("idle") EXCEPT !.fs = SaveFailed(f, sv.faults).fs, !.done = TRUE]

WritersInit ==
    /\ \E b \in {Absent, Json(Doc(1, 1, 1, 1, 8, StartTime - 2000, 7), TRUE)} :
          fs = [cfg |-> Json(SharedDoc, TRUE), bak |-> b,
                ex |-> Json(TemplateDoc, FALSE), tmp |-> Absent, active |-> TRUE]
    /\ svc = NoSvc
    /\ cache = NoCache
    /\ now = StartTime
    /\ issued = 0
    /\ last = NoOp
    /\ save = NoSave
    /\ auth = NoAuth
    /\ calls = [w \in Writers |-> IdleWriter]

WritersFrame == UNCHANGED <<svc, cache, now, issued, save, auth>>

\* Lines 120-131 in process w: the call begins with its valid triple.
WriterBegin ==
    /\ \E w \in Writers, F \in WriterFaultSets :
          /\ calls[w].s.pc = "idle" /\ ~calls[w].done
          /\ calls' = [calls EXCEPT ![w].s =
                          [NoSave EXCEPT !.pc = "verify", !.triple = WriterTriple(w),
                                         !.faults = F, !.pre = fs.cfg]]
    /\ last' = NoOp
    /\ UNCHANGED fs
    /\ WritersFrame

\* The next file-system call of process w.
WriterStep ==
    /\ \E w \in Writers :
          /\ calls[w].s.pc /= "idle"
          /\ \E r \in {SaveStep(calls[w].s, fs)} :
                /\ fs' = r.fs
                /\ calls' = [calls EXCEPT ![w] = [s |-> r.s, done |-> r.done, ret |-> r.ret]]
                /\ last' = IF r.done
                           THEN [NoOp EXCEPT !.op = "save", !.ret = r.ret,
                                             !.triple = r.s.triple, !.faults = r.s.faults]
                           ELSE NoOp
    /\ WritersFrame

WritersNext ==
    \/ WriterBegin
    \/ WriterStep

WritersSpec == WritersInit /\ [][WritersNext]_vars

\* Under SaveStepsSpec every step action takes the step SaveStep computes.
StepsAreSaveSteps ==
    [][(save.pc /= "idle" /\ save' /= save)
         => /\ fs' = SaveStep(save, fs).fs
            /\ save'.pc = SaveStep(save, fs).s.pc
            /\ save'.data = SaveStep(save, fs).s.data]_vars

---------------------------------------------------------------------------
(* The service: the singleton of index.ts, its checkAuthStatus calls, the  *)
(* clock, and changes of the document from outside the process             *)

UriSamples == {1, 2, 3, 4}

\* expiresAt values: 0, one in the past, and the two around
\* StartTime + RenewalThreshold.
ExpirySamples ==
    {0,
     StartTime - 1000,
     StartTime + RenewalThreshold,
     StartTime + RenewalThreshold + 1}

\* Documents with redirect URI u: credentials only, token pairs with each
\* expiry (or none), another refresh token, a refresh token without access
\* token, and a token pair without client id.
AuthDocs(u) ==
    {Doc(1, 1, u, Missing, Missing, Missing, 7),
     Doc(1, 1, u, 1, 1, Missing, 7),
     Doc(1, 1, u, 2, 2, StartTime + RenewalThreshold + 1, 7),
     Doc(1, 1, u, Missing, 1, StartTime + RenewalThreshold + 1, 7),
     Doc(Missing, 1, u, 1, 1, StartTime + RenewalThreshold + 1, 7)}
    \cup {Doc(1, 1, u, 1, 1, e, 7) : e \in ExpirySamples}

AuthFiles(u) == {Absent, Empty, Corrupt} \cup {Json(d, FALSE) : d \in AuthDocs(u)}

\* Documents without redirect URI, which loadSpotifyConfig refuses.
NoUriFiles == {Json(Doc(1, 1, Missing, 1, 1, StartTime - 1000, 7), FALSE)}

\* Failing file-system calls of the saveTokensToConfig inside a refresh.
RefreshFaultSets == {{}, {"write"}}

\* The clock advances in steps of half a token life time.
TickMs == (ProviderExpiresIn * 1000) \div 2

\* What the document is to checkAuthStatus at time t.
DocCase(f, t) ==
    LET l == LoadSpotifyConfig(f)
        e == l.doc.expiresAt
    IN  IF ~l.ok THEN "unreadable"
        ELSE IF ~Truthy(l.doc.refreshToken) THEN "norefresh"
        ELSE IF ~Truthy(l.doc.accessToken) THEN "noaccess"
        ELSE IF e = Missing THEN "noexpiry"
        ELSE IF e = 0 THEN "zeroexpiry"
        ELSE IF e > t + RenewalThreshold THEN "fresh"
        ELSE IF e = t + RenewalThreshold THEN "boundary"
        ELSE "due"

Init ==
    /\ \E u \in UriSamples :
          \E c \in AuthFiles(u) \cup NoUriFiles :
             fs = [cfg |-> c, bak |-> Absent, ex |-> Json(TemplateDoc, FALSE),
                   tmp |-> Absent, active |-> FALSE]
    /\ svc = NoSvc
    /\ cache = NoCache
    /\ now = StartTime
    /\ issued = 0
    /\ last = NoOp
    /\ save = NoSave
    /\ auth = NoAuth
    /\ calls = <<>>

\* index.ts lines 58-72, the head of the play-music handler (the same in
\* get-in-the-flow, 216, and code-work-item, 448): getConfig() is called
\* outside every try block, so what loadSpotifyConfig throws leaves the
\* handler; then, the first time, new SpotifyService.
Construct ==
    /\ ~svc.exists
    /\ last.op = "none"
    /\ LET l == LoadSpotifyConfig(fs)
           n == NewSpotifyService(l.doc, now)
       IN  /\ fs' = l.fs
           /\ svc' = IF l.ok THEN n.svc ELSE svc
           /\ cache' = IF l.ok THEN n.cache ELSE cache
           /\ last' = [NoOp EXCEPT !.op = "construct", !.ret = l.ok,
                                   !.case = DocCase(fs, now),
                                   !.result = [NoResult EXCEPT !.threw = ~l.ok]]
    /\ UNCHANGED <<now, issued, save, auth, calls>>

CheckChain == IF last.op = "check" /\ last.refreshOk /\ last.saved THEN "afterRefresh" ELSE ""

CheckRecord(p) ==
    [NoOp EXCEPT !.op = "check", !.case = DocCase(fs, now), !.chain = CheckChain,
                 !.hadToken = (svc.refreshToken /= 0), !.adopted = p.adopted]

\* checkAuthStatus(), the refresh it may await included, as any caller
\* sees it.
CheckAuthStatusBody ==
    /\ svc.exists
    /\ \E p \in {CheckAuthPrefix(fs, svc, cache, now)} :
           \/ /\ p.decision /= "refresh"
              /\ fs' = p.fs /\ svc' = p.svc /\ cache' = p.cache
              /\ LET res == IF p.decision = "authorized" THEN Authorized("")
                            ELSE Unauthorized(p.svc, "required")
                 IN  last' = [CheckRecord(p) EXCEPT !.ret = res.isAuthorized,
                                                    !.result = res]
              /\ UNCHANGED <<now, issued, save, auth>>
           \/ /\ p.decision = "refresh"
              /\ issued < MaxIssued
              /\ \E ok \in BOOLEAN, F \in RefreshFaultSets, envSet \in {FALSE} :
                    /\ ok => p.svc.apiRefreshToken /= 0
                    /\ \E r \in {RefreshAccessToken(p.fs, p.svc, p.cache, now, ok,
                                                   IssuedToken(issued + 1),
                                                   ProviderExpiresIn, F, envSet)} :
                       LET tok == IssuedToken(issued + 1)
                           res == IF r.ok THEN Authorized("refreshed")
                                  ELSE Unauthorized(r.svc, "expired")
                       IN  /\ fs' = r.fs /\ svc' = r.svc /\ cache' = r.cache
                           /\ issued' = IF ok THEN issued + 1 ELSE issued
                           /\ last' = [CheckRecord(p) EXCEPT
                                  !.ret = res.isAuthorized, !.result = res,
                                  !.refreshCalled = TRUE, !.refreshOk = r.ok,
                                  !.saved = r.saved, !.faults = F,
                                  !.triple = IF r.ok
                                             THEN Triple(tok, p.svc.refreshToken,
                                                         now + ProviderExpiresIn * 1000)
                                             ELSE NoTriple]
              /\ UNCHANGED <<now, save, auth>>

\* checkAuthStatus() called by a tool handler.
CheckAuthStatus == CheckAuthStatusBody /\ UNCHANGED calls

Tick ==
    /\ now < StartTime + MaxTicks * TickMs
    /\ now' = now + TickMs
    /\ last' = NoOp
    /\ UNCHANGED <<fs, svc, cache, issued, save, auth, calls>>

\* The document is replaced from outside the process: a manual edit, the
\* authorization CLI, a restore.
ExternalEdit ==
    /\ svc.exists
    /\ \E c \in AuthFiles(svc.redirectUri) :
          /\ c /= fs.cfg
          /\ fs' = [fs EXCEPT !.cfg = c]
    /\ last' = NoOp
    /\ UNCHANGED <<svc, cache, now, issued, save, auth, calls>>

Next ==
    \/ Construct
    \/ CheckAuthStatus
    \/ Tick
    \/ ExternalEdit

Spec == Init /\ [][Next]_vars

---------------------------------------------------------------------------
(* serverAuthorize: the callback listener and the promise it resolves      *)

\* The state token getAuthorizationUrl generated for the invocation.
StateToken == 1

\* The refresh token the provider returns for an authorization code.
ExchangedRefreshToken == 5

\* resolve(...) of the promise: only the first call settles it.
Resolve(a, ok, msg) ==
    [a EXCEPT !.resolveCalls = @ + 1, !.resolved = TRUE,
              !.success = IF a.resolved THEN @ ELSE ok,
              !.message = IF a.resolved THEN @ ELSE msg]

\* server.close()
Close(a) == [a EXCEPT !.listener = "closed"]

\* A request handler that does not compare the state parameter.
CallbackCase_NoStateCheck(path, error, state, code) ==
    IF path /= "callback" THEN "notfound"
    ELSE IF error THEN "error"
    ELSE IF code = 0 THEN "nocode"
    ELSE "exchange"

\* The branch of the request handler a request takes (lines 699-803): state
\* and code are 0 when the parameter is absent.
CallbackCase(path, error, state, code) ==
    IF path /= "callback" THEN "notfound"
    ELSE IF error THEN "error"
    ELSE IF state /= StateToken THEN "mismatch"
    ELSE IF code = 0 THEN "nocode"
    ELSE "exchange"

\* A handler for other paths that ends the flow.
NotFound_Closes(a) == Resolve(Close(a), FALSE, "not found")

\* res.writeHead(404); res.end()
NotFound(a) == [a EXCEPT !.notFound = @ + 1]

\* A server 'error' handler that only logs.
OnServerError_LogOnly(a) == [a EXCEPT !.errorPending = FALSE]

\* server.on('error', ...): the promise is resolved, the server is left as
\* it is.
OnServerError(a) ==
    Resolve([a EXCEPT !.errorPending = FALSE], FALSE, "server error")

\* A serverAuthorize that tests the redirect URI as checkAuthStatus does.
RedirectHostAccepted_Includes(u) ==
    \/ Includes(UriText(u), "localhost")
    \/ Includes(UriText(u), "127.0.0.1")

\* Line 673: the host of the redirect URI is localhost or 127.0.0.1.
RedirectHostAccepted(u) == HostIsLocal(u)

\* createServer needs the certificate files for an https redirect URI.
IsHttps(u) == Len(UriText(u)) > 0 /\ UriText(u)[1] = "https"

ListenerDocs(u) ==
    {Doc(1, 1, u, Missing, Missing, Missing, 7),
     Doc(1, 1, u, 1, 1, StartTime + RenewalThreshold + 1, 7)}

AuthInit ==
    /\ \E u \in UriSamples :
          \E d \in ListenerDocs(u) :
             /\ fs = [cfg |-> Json(d, FALSE), bak |-> Absent,
                      ex |-> Json(TemplateDoc, FALSE), tmp |-> Absent,
                      active |-> TRUE]
             /\ svc = NewSpotifyService(d, StartTime).svc
             /\ cache = NewSpotifyService(d, StartTime).cache
    /\ now = StartTime
    /\ issued = 0
    /\ last = NoOp
    /\ save = NoSave
    /\ auth = NoAuth
    /\ calls = <<>>

AuthFrame == UNCHANGED <<now, save, calls>>

TokensUnchanged == UNCHANGED <<fs, svc, cache, issued>>

\* The port a redirect URI stands for: its own, else that of its scheme.
ImpliedPort(u) ==
    IF UrlPort(UriText(u)) = 0 THEN SchemeDefaultPort(UriText(u))
    ELSE UrlPort(UriText(u))

\* Line 680: const port = redirectUri.port || '80', parsed at line 814.
ListenPort(u) ==
    IF UrlPort(UriText(u)) = 0 THEN 80 ELSE UrlPort(UriText(u))

\* The body of serverAuthorize for an invocation record a: host test,
\* createServer, listen on 127.0.0.1.
StartListener(a, u, certsReadable, bindOk) ==
    IF ~RedirectHostAccepted(u)
    THEN Resolve(a, FALSE, "host")
    ELSE IF IsHttps(u) /\ ~certsReadable
    THEN Resolve(a, FALSE, "nocert")
    ELSE IF bindOk THEN [a EXCEPT !.listener = "open", !.port = ListenPort(u)]
    ELSE [a EXCEPT !.listener = "unbound", !.errorPending = TRUE,
                   !.port = ListenPort(u)]

\* serverAuthorize() up to the return of its promise (lines 662-827).
ServerAuthorize ==
    /\ ~auth.invoked
    /\ \E certsReadable \in BOOLEAN, bindOk \in BOOLEAN :
          auth' = StartListener([auth EXCEPT !.invoked = TRUE, !.round = 1],
                                svc.redirectUri, certsReadable, bindOk)
    /\ last' = [NoOp EXCEPT !.op = "authorize"]
    /\ TokensUnchanged
    /\ AuthFrame

\* The 'error' event of a listen() that could not bind is delivered.
DeliverError ==
    /\ auth.errorPending
    /\ auth' = OnServerError(auth)
    /\ last' = [NoOp EXCEPT !.op = "serverError", !.case = "bind"]
    /\ TokensUnchanged
    /\ AuthFrame

\* The listening server emits 'error' (a failing accept); the handler runs
\* within the emit.
RuntimeError ==
    /\ auth.listener = "open"
    /\ auth.errors < MaxErrors
    /\ auth' = OnServerError([auth EXCEPT !.errors = @ + 1])
    /\ last' = [NoOp EXCEPT !.op = "serverError", !.case = "accept"]
    /\ TokensUnchanged
    /\ AuthFrame

\* A request reaches the open listener: the handler up to its first await.
Request ==
    /\ auth.listener = "open"
    /\ \E path \in {"callback", "other"}, error \in BOOLEAN,
          state \in {0, StateToken, StateToken + 1}, code \in {0, 1} :
          \E k \in {CallbackCase(path, error, state, code)} :
             /\ k = "notfound" => auth.notFound < MaxNotFound
             /\ k = "exchange" => auth.exchangeCalls < MaxIssued
             /\ auth' =
                   CASE k = "notfound" -> NotFound(auth)
                     [] k = "error"    -> Resolve(Close(auth), FALSE, "authorization failed")
                     [] k = "mismatch" -> Resolve(Close(auth), FALSE, "state mismatch")
                     [] k = "nocode"   -> Resolve(Close(auth), FALSE, "no code")
                     [] OTHER          -> [auth EXCEPT !.exchanging = @ + 1,
                                                       !.exchangeCalls = @ + 1]
             /\ last' = [NoOp EXCEPT !.op = "request", !.case = k,
                                     !.request = [path |-> path, error |-> error,
                                                  state |-> state, code |-> code],
                                     !.exchangeCalled = (k = "exchange")]
    /\ TokensUnchanged
    /\ AuthFrame

\* An awaited exchangeCodeForToken returns or throws: lines 747-799.
ExchangeDone ==
    /\ auth.exchanging > 0
    /\ \E ok \in BOOLEAN, F \in RefreshFaultSets :
          LET tok == IssuedToken(issued + 1)
              t   == Triple(tok, ExchangedRefreshToken, now + ProviderExpiresIn * 1000)
              a   == [auth EXCEPT !.exchanging = @ - 1]
          IN  /\ ok => issued < MaxIssued
              /\ IF ok
                 THEN \E sv \in {SaveTokensToConfig(fs, t, F, FALSE)} :
                         /\ fs' = sv.fs
                         /\ svc' = [svc EXCEPT !.accessToken = tok,
                                               !.apiRefreshToken = ExchangedRefreshToken,
                                               !.refreshToken = ExchangedRefreshToken,
                                               !.isAuthorized = TRUE]
                         /\ cache' = CacheSet(CacheSet(cache, "refreshToken",
                                                       ExchangedRefreshToken,
                                                       RefreshTokenTtl, now),
                                              "tokenExpires", t.expiresAt,
                                              ProviderExpiresIn, now)
                         /\ issued' = issued + 1
                         /\ auth' = Resolve(Close(a), TRUE, "success")
                         /\ last' = [NoOp EXCEPT !.op = "exchanged", !.ret = TRUE,
                                                 !.triple = t, !.faults = F,
                                                 !.saved = sv.ret]
                 ELSE /\ auth' = Resolve(Close(a), FALSE, "exchange error")
                      /\ last' = [NoOp EXCEPT !.op = "exchanged"]
                      /\ TokensUnchanged
    /\ AuthFrame

AuthNext ==
    \/ ServerAuthorize
    \/ DeliverError
    \/ RuntimeError
    \/ Request
    \/ ExchangeDone

AuthSpec == AuthInit /\ [][AuthNext]_vars

\* The event loop runs a queued 'error' event and a settled fetch.
AuthLiveSpec ==
    AuthSpec /\ WF_vars(DeliverError) /\ WF_vars(ExchangeDone)

---------------------------------------------------------------------------
(* The service with its listener: checkAuthStatus and serverAuthorize,     *)
(* invoked again after an earlier invocation has resolved                  *)

FlowUriSamples == {1, 3, 6, 7}

FlowDocs(u) ==
    ListenerDocs(u) \cup {Doc(1, 1, u, 1, 1, StartTime - 1000, 7)}

FlowInit ==
    /\ \E u \in FlowUriSamples :
          \E d \in FlowDocs(u) :
             /\ fs = [cfg |-> Json(d, FALSE), bak |-> Absent,
                      ex |-> Json(TemplateDoc, FALSE), tmp |-> Absent,
                      active |-> TRUE]
             /\ svc = NewSpotifyService(d, StartTime).svc
             /\ cache = NewSpotifyService(d, StartTime).cache
    /\ now = StartTime
    /\ issued = 0
    /\ last = NoOp
    /\ save = NoSave
    /\ auth = NoAuth
    /\ calls = <<>>

\* serverAuthorize() called after an earlier invocation resolved. The
\* earlier server, when it was never closed, still holds the port: listen()
\* of the new server then fails with EADDRINUSE.
Reauthorize ==
    /\ auth.invoked /\ auth.resolved
    /\ auth.exchanging = 0 /\ ~auth.errorPending
    /\ auth.round < MaxRounds
    /\ \E certsReadable \in BOOLEAN, bindOk \in BOOLEAN :
          LET held == auth.leaked \/ auth.listener = "open"
              a    == [NoAuth EXCEPT !.invoked = TRUE, !.round = auth.round + 1,
                                     !.leaked = held, !.errors = auth.errors,
                                     !.notFound = auth.notFound,
                                     !.exchangeCalls = auth.exchangeCalls]
          IN  /\ held => ~bindOk
              /\ auth' = StartListener(a, svc.redirectUri, certsReadable, bindOk)
    /\ last' = [NoOp EXCEPT !.op = "authorize", !.case = "again"]
    /\ TokensUnchanged
    /\ AuthFrame

\* A callback reaches the server an earlier invocation left open: its
\* handler compares with the state of that invocation, closes the server and
\* resolves the promise that is already settled.
LeakedRequest ==
    /\ auth.leaked
    /\ \E error \in BOOLEAN, code \in {0, 1} :
          \E k \in {CallbackCase("callback", error, StateToken + 1, code)} :
             /\ auth' = [auth EXCEPT !.leaked = FALSE]
             /\ last' = [NoOp EXCEPT !.op = "leakedRequest", !.case = k]
    /\ TokensUnchanged
    /\ AuthFrame

\* One invocation of serverAuthorize beside calls of checkAuthStatus.
FlowNext ==
    \/ ServerAuthorize
    \/ DeliverError
    \/ RuntimeError
    \/ Request
    \/ ExchangeDone
    \/ CheckAuthStatus

FlowSpec == FlowInit /\ [][FlowNext]_vars

\* The same with serverAuthorize invoked again.
RetryNext ==
    \/ ServerAuthorize
    \/ Reauthorize
    \/ DeliverError
    \/ RuntimeError
    \/ Request
    \/ LeakedRequest
    \/ ExchangeDone
    \/ CheckAuthStatus

RetrySpec == FlowInit /\ [][RetryNext]_vars

---------------------------------------------------------------------------
(* Two checkAuthStatus calls of one service in progress beside each other: *)
(* a call gives way at each await of refreshAccessToken                    *)

Callers == {1, 2}

IdleCall ==
    [pc |-> "idle", pre |-> NoDoc, refreshed |-> FALSE, triple |-> NoTriple,
     saved |-> FALSE, authorized |-> FALSE]

\* Lines 228-233: the provider's answer is taken into the service and the
\* expiry is computed from the clock.
RefreshReceived(s, t, tok, expiresIn) ==
    [svc |-> [s EXCEPT !.accessToken = tok, !.isAuthorized = TRUE],
     triple |-> Triple(tok, 0, t + expiresIn * 1000)]

\* A refresh that computes the expiry when it saves.
RefreshStored_ClockAtSave(f, s, c, t, tr, expiresIn, F, envSet) ==
    LET expiresAt == t + expiresIn * 1000
        sv == SaveTokensToConfig(f, Triple(tr.accessToken, s.refreshToken, expiresAt),
                                 F, envSet)
        c1 == CacheSet(c, "tokenExpires", expiresAt, expiresIn, t)
        c2 == IF ~sv.ret /\ s.refreshToken /= 0
              THEN CacheSet(c1, "refreshToken", s.refreshToken, RefreshTokenTtl, t)
              ELSE c1
    IN  [saved |-> sv.ret, fs |-> sv.fs, cache |-> c2]

\* Lines 235-258, after the awaited import: saveTokensToConfig with the
\* refresh token the service holds now, then the cache.
RefreshStored(f, s, c, t, tr, expiresIn, F, envSet) ==
    LET sv == SaveTokensToConfig(f, Triple(tr.accessToken, s.refreshToken, tr.expiresAt),
                                 F, envSet)
        c1 == CacheSet(c, "tokenExpires", tr.expiresAt, expiresIn, t)
        c2 == IF ~sv.ret /\ s.refreshToken /= 0
              THEN CacheSet(c1, "refreshToken", s.refreshToken, RefreshTokenTtl, t)
              ELSE c1
    IN  [saved |-> sv.ret, fs |-> sv.fs, cache |-> c2]

ConcurrentDocs(u) ==
    {Doc(1, 1, u, 1, 1, StartTime - 1000, 7),
     Doc(1, 1, u, 1, 1, StartTime + RenewalThreshold + 1, 7)}

ConcurrentInit ==
    /\ \E u \in {1, 3} :
          \E d \in ConcurrentDocs(u) :
             /\ fs = [cfg |-> Json(d, FALSE), bak |-> Absent,
                      ex |-> Json(TemplateDoc, FALSE), tmp |-> Absent,
                      active |-> TRUE]
             /\ svc = NewSpotifyService(d, StartTime).svc
             /\ cache = NewSpotifyService(d, StartTime).cache
    /\ now = StartTime
    /\ issued = 0
    /\ last = NoOp
    /\ save = NoSave
    /\ auth = NoAuth
    /\ calls = [c \in Callers |-> IdleCall]

\* Lines 112-146 and 177-196: checkAuthStatus up to its return or to
\* `await this.spotifyApi.refreshAccessToken()`.
CallBegin ==
    /\ \E c \in Callers :
          /\ calls[c].pc = "idle"
          /\ \E p \in {CheckAuthPrefix(fs, svc, cache, now)} :
                /\ fs' = p.fs /\ svc' = p.svc /\ cache' = p.cache
                /\ calls' = [calls EXCEPT ![c] =
                      [IdleCall EXCEPT
                          !.pc = IF p.decision = "refresh" THEN "refreshing" ELSE "done",
                          !.pre = fs.cfg.doc,
                          !.authorized = (p.decision = "authorized")]]
    /\ last' = [NoOp EXCEPT !.op = "callBegin"]
    /\ UNCHANGED <<now, issued, save, auth>>

\* The provider answers the refresh request of a call: lines 227-238, or
\* the catch blocks at 151-163 and 201-213.
RefreshResponse ==
    /\ \E c \in Callers, ok \in BOOLEAN :
          /\ calls[c].pc = "refreshing"
          /\ ok => issued < MaxIssued /\ svc.apiRefreshToken /= 0
          /\ IF ok
             THEN \E r \in {RefreshReceived(svc, now, IssuedToken(issued + 1),
                                            ProviderExpiresIn)} :
                     /\ svc' = r.svc
                     /\ issued' = issued + 1
                     /\ calls' = [calls EXCEPT ![c].pc = "importing",
                                               ![c].refreshed = TRUE,
                                               ![c].triple = r.triple]
             ELSE /\ calls' = [calls EXCEPT ![c].pc = "done"]
                  /\ UNCHANGED <<svc, issued>>
    /\ last' = [NoOp EXCEPT !.op = "refreshResponse"]
    /\ UNCHANGED <<fs, cache, now, save, auth>>

\* The rest of refreshAccessToken and the return of checkAuthStatus: lines
\* 239-260 and 147-150.
RefreshStore ==
    /\ \E c \in Callers, F \in RefreshFaultSets :
          /\ calls[c].pc = "importing"
          /\ \E r \in {RefreshStored(fs, svc, cache, now, calls[c].triple,
                                     ProviderExpiresIn, F, FALSE)} :
                /\ fs' = r.fs /\ cache' = r.cache
                /\ calls' = [calls EXCEPT ![c].pc = "done", ![c].saved = r.saved,
                                          ![c].authorized = TRUE,
                                          ![c].triple.refreshToken = svc.refreshToken]
    /\ last' = [NoOp EXCEPT !.op = "refreshStore"]
    /\ UNCHANGED <<svc, now, issued, save, auth>>

ConcurrentNext ==
    \/ CallBegin
    \/ RefreshResponse
    \/ RefreshStore
    \/ Tick

ConcurrentSpec == ConcurrentInit /\ [][ConcurrentNext]_vars

\* A refresh whose two halves run at one time is refreshAccessToken.
RefreshSplitAgrees ==
    \A F \in RefreshFaultSets :
       LET tok  == IssuedToken(issued + 1)
           whole == RefreshAccessToken(fs, svc, cache, now, TRUE, tok,
                                       ProviderExpiresIn, F, FALSE)
           r    == RefreshReceived(svc, now, tok, ProviderExpiresIn)
           st   == RefreshStored(fs, r.svc, cache, now, r.triple,
                                 ProviderExpiresIn, F, FALSE)
       IN  /\ whole.svc = r.svc /\ whole.fs = st.fs
           /\ whole.cache = st.cache /\ whole.saved = st.saved

---------------------------------------------------------------------------
(* The operations of SpotifyService that call the provider's Web API       *)

Operations ==
    {"searchTracks", "getRecommendations", "createPlaylist", "playTracks",
     "getUserTopTracks", "getUserTopGenres", "determineBestMusic",
     "chooseMusicByContent"}

\* The operation of the service an operation awaits after its own check
\* ("" when it awaits none): lines 954 and 984.
NestedOperation(op) ==
    CASE op = "determineBestMusic"   -> "getUserTopTracks"
      [] op = "chooseMusicByContent" -> "getUserTopGenres"
      [] OTHER                       -> ""

\* The calls of the Web API client an operation makes itself after its
\* checkAuthStatus returned: the calls of its body when authorized, and the
\* calls of its catch block when the "authorization required" error is
\* thrown into it.
ProviderCalls(op, authorized) ==
    IF authorized
    THEN CASE op = "createPlaylist"     -> 3
           [] op = "determineBestMusic" -> 0
           [] OTHER                     -> 1
    ELSE IF op = "chooseMusicByContent" THEN 1 ELSE 0

\* An operation that has awaited its checkAuthStatus.
Frame(op, authorized) ==
    [op |-> op, authorized |-> authorized, pc |-> "checked"]

OperationRecord(op, checked, authorized) ==
    [NoOp EXCEPT !.op = "operation", !.case = op, !.checked = checked,
                 !.ret = authorized,
                 !.apiCalls = IF checked THEN ProviderCalls(op, authorized) ELSE 0]

\* A tool handler calls an operation: playTracks returns at once when it is
\* given no usable track id (lines 471-487); every other call begins with
\* `await this.checkAuthStatus()`.
OperationStart ==
    /\ svc.exists /\ calls = <<>>
    /\ \E op \in Operations, idsValid \in BOOLEAN :
          IF op = "playTracks" /\ ~idsValid
          THEN /\ last' = OperationRecord(op, FALSE, FALSE)
               /\ UNCHANGED <<fs, svc, cache, now, issued, save, auth, calls>>
          ELSE /\ idsValid
               /\ CheckAuthStatusBody
               /\ calls' = <<Frame(op, last'.result.isAuthorized)>>

\* An authorized determineBestMusic or chooseMusicByContent awaits
\* getUserTopTracks or getUserTopGenres, which begins with its own
\* checkAuthStatus.
OperationNested ==
    /\ calls /= <<>>
    /\ LET f == calls[Len(calls)]
       IN  /\ f.pc = "checked" /\ f.authorized
           /\ NestedOperation(f.op) /= ""
           /\ CheckAuthStatusBody
           /\ calls' = [calls EXCEPT ![Len(calls)].pc = "nested"]
                       \o <<Frame(NestedOperation(f.op), last'.result.isAuthorized)>>

\* The rest of an operation: its Web API calls, and its return or throw to
\* the caller.
OperationFinish ==
    /\ calls /= <<>>
    /\ LET f == calls[Len(calls)]
           rest == SubSeq(calls, 1, Len(calls) - 1)
       IN  /\ \/ f.pc = "done"
              \/ f.pc = "checked" /\ ~(f.authorized /\ NestedOperation(f.op) /= "")
           /\ last' = OperationRecord(f.op, TRUE, f.authorized)
           /\ calls' = IF rest = <<>> THEN rest
                       ELSE [rest EXCEPT ![Len(rest)].pc = "done"]
    /\ UNCHANGED <<fs, svc, cache, now, issued, save, auth>>

OperationsNext ==
    \/ Construct
    \/ OperationStart
    \/ OperationNested
    \/ OperationFinish

OperationsSpec == Init /\ [][OperationsNext]_vars

---------------------------------------------------------------------------
(* Claims about checkAuthStatus, checked under Spec                        *)

LastCheck == last.op = "check"

\* C1: when the document loads with a token pair and an expiresAt later
\* than now + 300000 ms, checkAuthStatus returns isAuthorized: true and
\* calls neither the refresh nor the code exchange, whatever the service
\* and the cache held before the call.
C1_FreshDocumentAuthorized ==
    (LastCheck /\ last.case = "fresh") =>
        /\ last.result.isAuthorized
        /\ ~last.result.threw
        /\ ~last.refreshCalled
        /\ ~last.exchangeCalled

\* A check of a fresh document by a service that already held the same
\* refresh token and whose cached expiry has run out.
C1_Witness ==
    /\ LastCheck /\ last.case = "fresh"
    /\ last.hadToken /\ ~last.adopted
    /\ ~CacheLive(cache, "tokenExpires", now)
    /\ last.result.isAuthorized

\* C2 as stated: a document with a token pair and expiresAt <= now + 300000
\* ms, the boundary included, makes checkAuthStatus call the refresh.
C2_Original ==
    (LastCheck /\ last.case \in {"due", "boundary", "zeroexpiry"}) =>
        last.refreshCalled

\* C2: when the document loads with a token pair and a non-zero expiresAt
\* earlier than now + 300000 ms, checkAuthStatus calls the refresh; when the
\* provider refresh succeeds it returns isAuthorized: true; and when the
\* tokens were saved as well, the document holds the new access token and
\* expiresAt = now + 3600 s, and the next checkAuthStatus decides
\* "authorized" without a refresh.
C2_RefreshRenewsDocument ==
    (LastCheck /\ last.case = "due") =>
        /\ last.refreshCalled
        /\ last.refreshOk => last.result.isAuthorized
        /\ (last.refreshOk /\ last.saved) =>
              /\ Parses(fs.cfg)
              /\ fs.cfg.doc.accessToken = IssuedToken(issued)
              /\ fs.cfg.doc.expiresAt = now + ProviderExpiresIn * 1000
              /\ CheckAuthPrefix(fs, svc, cache, now).decision = "authorized"

C2_Witness ==
    /\ LastCheck /\ last.case = "due"
    /\ last.refreshOk /\ last.saved
    /\ last.result.isAuthorized

\* C3: when the document is readable and valid but holds no token pair,
\* checkAuthStatus returns isAuthorized: false, even if the service or the
\* cache holds a refresh token.
C3_DocumentDecides ==
    (LastCheck /\ last.case \in {"norefresh", "noaccess"}) =>
        ~last.result.isAuthorized

\* C4: when the document loads without refresh token, or does not load and
\* the service holds no refresh token, checkAuthStatus returns
\* isAuthorized: false with an authUrl, attempts no refresh, and reports
\* serverAuthAvailable for https://localhost:8888/callback.
C4_AuthorizationRequired ==
    (LastCheck /\ (last.case = "norefresh"
                   \/ (last.case = "unreadable" /\ ~last.hadToken))) =>
        /\ ~last.result.isAuthorized
        /\ last.result.authUrl
        /\ ~last.refreshCalled
        /\ svc.redirectUri = 1 => last.result.serverAuthAvailable

\* C5: checkAuthStatus never throws, and a failed refresh gives
\* isAuthorized: false with an authUrl.
C5_CheckNeverThrows ==
    LastCheck =>
        /\ ~last.result.threw
        /\ (last.refreshCalled /\ ~last.refreshOk) =>
              (~last.result.isAuthorized /\ last.result.authUrl)

C5_Witness ==
    /\ LastCheck
    /\ last.refreshCalled /\ ~last.refreshOk
    /\ ~last.result.isAuthorized /\ last.result.authUrl

\* C6: an unauthorized result of checkAuthStatus has serverAuthAvailable
\* only if the host of the redirect URI is localhost or 127.0.0.1, the
\* hosts serverAuthorize accepts.
C6_ServerAuthOnlyForLocalHost ==
    (LastCheck /\ ~last.result.isAuthorized /\ last.result.serverAuthAvailable) =>
        HostIsLocal(svc.redirectUri)

\* C20: a tool handler that meets a missing, empty, malformed or incomplete
\* configuration document returns a response and does not throw.
C20_ToolHandlerCatchesConfigError ==
    last.op = "construct" => ~last.result.threw

\* C22: after a checkAuthStatus that read a document with a token pair (and
\* made no refresh), the service holds the document's access token and
\* refresh token.
C22_MemoryEqualsDocument ==
    (/\ LastCheck /\ ~last.refreshCalled
     /\ last.case \in {"fresh", "boundary", "noexpiry", "zeroexpiry"})
    => /\ svc.accessToken = fs.cfg.doc.accessToken
       /\ svc.refreshToken = fs.cfg.doc.refreshToken

\* C23: a document with accessToken and refreshToken but without expiresAt
\* is not reported authorized unless a refresh was made.
C23_NoExpiryNeedsRefresh ==
    (LastCheck /\ last.case \in {"noexpiry", "zeroexpiry"} /\ last.result.isAuthorized)
    => last.refreshCalled

\* C29: after a refresh that the provider answered but whose
\* saveTokensToConfig failed, with the document still holding the old
\* expiresAt, the next checkAuthStatus decides "authorized" without a
\* refresh.
C29_CacheOnlyAfterFailedSave ==
    (/\ LastCheck /\ last.case = "due" /\ last.refreshOk /\ ~last.saved
     /\ DocCase(fs, now) = "due")
    => CheckAuthPrefix(fs, svc, cache, now).decision = "authorized"

---------------------------------------------------------------------------
(* Claims about the authorization flow: FlowSpec, RetrySpec and AuthSpec   *)

NewTokensHeld(t) ==
    /\ svc.accessToken = t.accessToken
    /\ cache.refreshToken.set /\ cache.refreshToken.v = svc.refreshToken
    /\ cache.tokenExpires.set /\ cache.tokenExpires.v = t.expiresAt

\* C21: a serverAuthorize started after an earlier invocation resolved is
\* never refused its port by a listener this process left open.
C21_RetryCanBind ==
    (last.op = "authorize" /\ auth.round > 1) => ~auth.leaked

\* C24: an open listener is bound to the port of the redirect URI, and to
\* the default of the scheme (443 for https, 80 for http) when the URI names
\* no port.
C24_ListensOnSchemeDefault ==
    auth.listener = "open" => auth.port = ImpliedPort(svc.redirectUri)

\* A failed saveTokensToConfig changes nothing but the document: the
\* refresh returns authorized, the exchange handler closes the listener and
\* calls resolve with success: true, which settles the promise when no
\* earlier call has, and the service and the cache hold the new tokens.
SaveFailureKeepsOutcome ==
    /\ (last.op = "check" /\ last.refreshCalled /\ last.triple /= NoTriple /\ ~last.saved)
       => /\ last.result.isAuthorized /\ ~last.result.threw
          /\ NewTokensHeld(last.triple)
    /\ (last.op = "exchanged" /\ last.ret /\ ~last.saved)
       => /\ auth.resolved /\ auth.listener = "closed"
          /\ auth.resolveCalls = 1 => auth.success
          /\ NewTokensHeld(last.triple)

\* C25: after a refresh or a callback exchange whose saveTokensToConfig
\* failed, the refresh has returned authorized, serverAuthorize has resolved
\* with success: true, and the service holds the new access token while the
\* cache holds the refresh token and the new expiry.
C25_SaveFailureNeverAborts ==
    /\ (last.op = "check" /\ last.refreshCalled /\ last.triple /= NoTriple /\ ~last.saved)
       => /\ last.result.isAuthorized /\ ~last.result.threw
          /\ NewTokensHeld(last.triple)
    /\ (last.op = "exchanged" /\ last.ret /\ ~last.saved)
       => /\ auth.resolved /\ auth.success
          /\ NewTokensHeld(last.triple)

\* C27: within one serverAuthorize invocation the token exchange is started
\* at most once and tokens are stored at most once.
C27_ExchangeAtMostOnce == auth.exchangeCalls <= 1 /\ issued <= 1

\* C30: an operation makes a call of the provider's Web API only after its
\* checkAuthStatus returned isAuthorized: true.
C30_NoProviderCallUnauthorized ==
    (last.op = "operation" /\ last.apiCalls > 0) => last.checked /\ last.ret

---------------------------------------------------------------------------
(* Claims about the store, checked under StoreSpec                         *)

OtherKeys == Keys \ TokenKeys

\* Every key of document d other than the three token keys is in e with
\* the same value.
KeepsOtherKeys(d, e) == \A k \in OtherKeys : d[k] /= Missing => e[k] = d[k]

\* C7: saveTokensToConfig is idempotent: after a call that returned true on
\* a valid document, a second call with the same triple (whose backup copy
\* does not fail) leaves the document content exactly as the first call
\* left it.
C7_SaveIdempotent ==
    [][(/\ last.op = "save" /\ last.ret /\ last.case = "valid"
        /\ last'.op = "save" /\ last'.triple = last.triple
        /\ "backup" \notin last'.faults)
       => fs'.cfg = fs.cfg]_vars

C7_Witness ==
    /\ last.op = "save" /\ last.chain = "repeat" /\ last.ret
    /\ Parses(fs.cfg) /\ fs.cfg.pretty
    /\ fs.cfg.doc.accessToken = last.triple.accessToken
    /\ fs.cfg.doc.extra = 7
    /\ fs.bak = fs.cfg

\* C8 as stated: a saveTokensToConfig call (no file-system call failing) on
\* any well-formed JSON document keeps every key other than the token keys.
C8_Original ==
    [][(last'.op = "save" /\ last'.faults = {} /\ Parses(fs.cfg))
       => (Parses(fs'.cfg) /\ KeepsOtherKeys(fs.cfg.doc, fs'.cfg.doc))]_vars

\* C8 amended: a saveTokensToConfig call on a well-formed JSON document that
\* holds non-empty clientId, clientSecret and redirectUri, whose backup copy
\* does not fail, keeps every key other than the three token keys, with its
\* value.
C8_SavePreservesOtherKeys ==
    [][(/\ last'.op = "save" /\ "backup" \notin last'.faults
        /\ FileCase(fs.cfg) = "valid")
       => (Parses(fs'.cfg) /\ KeepsOtherKeys(fs.cfg.doc, fs'.cfg.doc))]_vars

C8_Witness ==
    /\ last.op = "save" /\ last.ret /\ last.case = "valid" /\ last.chain = ""
    /\ fs.cfg.doc.extra = 7 /\ fs.cfg.doc.clientId = 1
    /\ fs.cfg.doc.accessToken = last.triple.accessToken
    /\ fs.bak.doc.accessToken /= fs.cfg.doc.accessToken

\* C9: when the document was deleted after a successful saveTokensToConfig
\* and the template is well-formed JSON, the next call with a valid triple
\* (no file-system call failing) returns true and leaves the template's
\* fields plus the three token fields.
C9_SelfHealFromTemplate ==
    (/\ last.op = "save" /\ last.chain = "afterDelete"
     /\ ValidTriple(last.triple) /\ last.faults = {} /\ Parses(fs.ex))
    => (last.ret /\ fs.cfg = Json(WithTokens(fs.ex.doc, last.triple), TRUE))

C9_Witness ==
    /\ last.op = "save" /\ last.chain = "afterDelete" /\ last.case = "absent"
    /\ last.ret /\ last.faults = {} /\ Parses(fs.ex)
    /\ fs.cfg.doc.clientId = 9
    /\ fs.cfg.doc.refreshToken = last.triple.refreshToken
    /\ Parses(fs.bak) /\ fs.bak /= fs.cfg

\* C10: verifyConfigFileIntegrity on a document that is not well-formed JSON,
\* with a .bak of valid JSON, returns true and leaves the .bak content as
\* the document, also when a template exists.
C10_RestoreFromBackup ==
    (last.op = "verify" /\ last.case = "corrupt" /\ Parses(fs.bak))
    => (last.ret /\ fs.cfg = fs.bak)

C10_Witness ==
    /\ last.op = "verify" /\ last.case = "corrupt" /\ last.ret
    /\ Parses(fs.bak) /\ fs.cfg = fs.bak
    /\ Parses(fs.ex) /\ fs.ex /= fs.bak

\* C11: verifyConfigFileIntegrity returns true only if, when it returns, the
\* document exists, is well-formed JSON and holds non-empty clientId,
\* clientSecret and redirectUri, whatever the .bak and the template hold.
C11_VerifyTrueMeansValid ==
    (last.op = "verify" /\ last.ret) => FileCase(fs.cfg) = "valid"

\* C12: verifyConfigFileIntegrity on a missing or an empty document, with a
\* template available, copies the template into place and returns true.
C12_HealsMissingAndEmpty ==
    (last.op = "verify" /\ last.case \in {"absent", "empty"} /\ Exists(fs.ex))
    => (last.ret /\ fs.cfg = fs.ex)

\* The file-system calls of saveTokensToConfig whose failure fails the call.
FailingCalls == {"read", "write", "rename", "readback"}

\* C13 as stated: whenever saveTokensToConfig returns false and a .bak
\* exists, the document holds the .bak content.
C13_Original ==
    (last.op = "save" /\ ~last.ret /\ Exists(fs.bak)) => fs.cfg = fs.bak

\* C13: saveTokensToConfig never raises.  With an invalid triple it returns
\* false and leaves the files as they were; when a file-system call of
\* FailingCalls throws it returns false; and whenever it returns false for a
\* valid triple, a .bak exists and the restoring copy does not fail itself,
\* the document holds the .bak content.
C13_SaveNeverRaises ==
    [][last'.op = "save" =>
          /\ ~last'.result.threw
          /\ ~ValidTriple(last'.triple) => (~last'.ret /\ fs' = fs)
          /\ (ValidTriple(last'.triple) /\ last'.faults \cap FailingCalls /= {})
                => ~last'.ret
          /\ (/\ ValidTriple(last'.triple) /\ ~last'.ret
              /\ Exists(fs'.bak) /\ "restore" \notin last'.faults)
                => fs'.cfg = fs'.bak]_vars

\* A failed write on a valid document whose backup had been made: the
\* document is the .bak again.
C13_Witness ==
    /\ last.op = "save" /\ ~last.ret /\ ValidTriple(last.triple)
    /\ last.faults = {"readback"} /\ last.case = "valid"
    /\ Exists(fs.bak) /\ fs.cfg = fs.bak

\* C14: a reader that loads the document while a saveTokensToConfig call is
\* in progress finds the document as it was before the call or as the call
\* leaves it.
C14_ReaderSeesPreOrPost ==
    (last.op = "read" /\ save.pc /= "idle") => fs.cfg \in {save.pre, save.post}

TokensOf(d) == Triple(d.accessToken, d.refreshToken, d.expiresAt)

BothReturned == \A w \in Writers : calls[w].done

\* C28: when two processes have each returned from saveTokensToConfig and
\* at least one returned true, the document holds the complete triple of a
\* call that returned true, with its other keys as they were.
C28_OneCompleteTriple ==
    (BothReturned /\ \E w \in Writers : calls[w].ret)
    => /\ Parses(fs.cfg)
       /\ \E w \in Writers : calls[w].ret /\ TokensOf(fs.cfg.doc) = WriterTriple(w)
       /\ KeepsOtherKeys(SharedDoc, fs.cfg.doc)

BothRefreshed == \A c \in Callers : calls[c].pc = "done" /\ calls[c].refreshed

\* The document holds the access token and the expiry of the answer call c
\* received.
HoldsResponse(c) ==
    /\ Parses(fs.cfg)
    /\ fs.cfg.doc.accessToken = calls[c].triple.accessToken
    /\ fs.cfg.doc.expiresAt = calls[c].triple.expiresAt

\* C26: when two checkAuthStatus calls in progress beside each other have
\* both had their refresh answered and have returned, both returned
\* authorized and the document keeps its other keys; and when the
\* saveTokensToConfig of at least one returned true, the document holds the
\* access token and the expiry of one answer whose save returned true.
C26_ConcurrentRefreshes ==
    BothRefreshed =>
        /\ \A c \in Callers : calls[c].authorized
        /\ \A c \in Callers : KeepsOtherKeys(calls[c].pre, fs.cfg.doc)
        /\ (\E c \in Callers : calls[c].saved)
              => \E c \in Callers : calls[c].saved /\ HoldsResponse(c)

\* Both answers arrived before either was saved, at different times, and
\* both saves returned true.
C26_Witness ==
    /\ BothRefreshed
    /\ \A c \in Callers : calls[c].saved
    /\ calls[1].triple.expiresAt /= calls[2].triple.expiresAt
    /\ HoldsResponse(1)
    /\ svc.accessToken = calls[2].triple.accessToken

---------------------------------------------------------------------------
(* Claims about serverAuthorize, checked under AuthSpec and AuthLiveSpec   *)

SameTokens == fs' = fs /\ svc' = svc /\ cache' = cache /\ issued' = issued

\* C15: a request to the callback path whose state parameter is absent or
\* is not the state token of the invocation leaves the promise resolved with
\* failure and the listener closed, starts no token exchange and changes no
\* token in the service, the cache or the document.
C15_StateMismatchFails ==
    [][(/\ last'.op = "request"
        /\ last'.request.path = "callback"
        /\ last'.request.state /= StateToken)
       => /\ auth'.resolved /\ ~auth'.success
          /\ auth'.listener = "closed"
          /\ auth'.exchangeCalls = auth.exchangeCalls
          /\ auth'.exchanging = auth.exchanging
          /\ SameTokens]_vars

\* A callback with a code and without state parameter.
C15_Witness ==
    /\ last.op = "request" /\ last.request.path = "callback"
    /\ last.request.state = 0 /\ last.request.code = 1 /\ ~last.request.error
    /\ auth.resolved /\ ~auth.success /\ auth.message = "state mismatch"
    /\ auth.listener = "closed" /\ auth.exchangeCalls = 0

\* C16: a request to another path than the callback path leaves the
\* listener open, the promise as it was and the tokens unchanged; and a
\* valid callback whose exchange succeeds then resolves the promise with
\* success and closes the listener.
C16_OtherPathsKeepListening ==
    [][/\ (last'.op = "request" /\ last'.request.path = "other")
            => /\ auth'.listener = "open"
               /\ auth'.resolved = auth.resolved
               /\ auth'.success = auth.success
               /\ auth'.exchangeCalls = auth.exchangeCalls
               /\ SameTokens
       /\ (last'.op = "exchanged" /\ last'.ret /\ ~auth.resolved)
            => /\ auth'.resolved /\ auth'.success
               /\ auth'.listener = "closed"]_vars

C16_Witness ==
    /\ last.op = "exchanged" /\ last.ret
    /\ auth.notFound = MaxNotFound
    /\ auth.resolved /\ auth.success /\ auth.listener = "closed"
    /\ svc.refreshToken = ExchangedRefreshToken

\* C17: once the promise of serverAuthorize is resolved, the listener the
\* invocation created is not open.
C17_ResolvedMeansClosed ==
    auth.resolved => auth.listener /= "open"

\* C18: when the host of the redirect URI is neither localhost nor
\* 127.0.0.1, serverAuthorize resolves with failure, no listener is ever
\* created, and no token changes.
C18_NonLocalHostRefused ==
    [][Hostname(UriText(svc.redirectUri)) \notin {<<"localhost">>, <<"127.0.0.1">>}
       => /\ auth'.listener = "none"
          /\ auth'.invoked => (auth'.resolved /\ ~auth'.success)
          /\ SameTokens]_vars

C18_Witness ==
    /\ last.op = "authorize" /\ svc.redirectUri = 4
    /\ auth.invoked /\ auth.resolved /\ ~auth.success
    /\ auth.message = "host" /\ auth.listener = "none"

\* C19: when listen() fails to bind, the promise is eventually resolved with
\* success: false; when the certificates are unreadable, or the listening
\* server emits 'error', it is resolved with success: false at once.
C19_TransportErrorResolves ==
    /\ (auth.listener = "unbound") ~> (auth.resolved /\ ~auth.success)
    /\ []((auth.invoked /\ auth.listener = "none") => (auth.resolved /\ ~auth.success))
    /\ [](last.op = "serverError" => (auth.resolved /\ ~auth.success))

C19_Witness ==
    /\ last.op = "serverError" /\ last.case = "bind"
    /\ auth.listener = "unbound"
    /\ auth.resolved /\ ~auth.success /\ auth.message = "server error"

===========================================================================
